---- MODULE Spec2Model ----
(***************************************************************************)
(* ochat (src/src/main.rs): conversations and messages kept in SQLite, a   *)
(* reply streamed from the generator over one process-wide tokio broadcast *)
(* channel, a writer task appending the reply to its placeholder row, SSE  *)
(* feeds on the same channel, and the fork of a conversation.              *)
(*                                                                         *)
(* Message bodies and response texts are sequences of tokens (naturals);   *)
(* SQL's body || ? is the concatenation of sequences.                      *)
(***************************************************************************)
EXTENDS Naturals, Sequences, FiniteSets, TLC

\* ------------------------------------------------------------------ bounds
\* send requests (messages_create)
MaxSends == 2
\* response lines one generation reads in the general specification
MaxLines == 2

\* records of a reply when two sends overlap
MaxPlainLines == 1
\* fork requests
MaxForks == 1
\* SSE subscriptions
MaxFeeds == 1
\* last instant of the wall clock
MaxTime == 3
\* lines beyond the channel's buffer a generation of SpecLag may produce
LagExtra == 2

\* the highest conversation id conversations_create gives out
MaxConvs == 3

\* broadcast::channel(10)
ChannelCapacity == 10

Null == 0

Sends == 1..MaxSends
Forks == 1..MaxForks
Feeds == 1..MaxFeeds

\* tokio's broadcast channel rounds the requested capacity up to a power of
\* two: channel(10) keeps the last 16 values.
RECURSIVE NextPowerOfTwo(_, _)
NextPowerOfTwo(n, p) == IF p >= n THEN p ELSE NextPowerOfTwo(n, 2 * p)

BufferLen == NextPowerOfTwo(ChannelCapacity, 1)

\* lines of the long generation of SpecLag
LagLines == BufferLen + LagExtra

\* enum Who, in its stored form
Me == "Me"
Llama == "LlaMA"

\* enum OllamaResponseMessage
More(gen, response) == [gen |-> gen, kind |-> "More", response |-> response]
Done(gen) == [gen |-> gen, kind |-> "Done", response |-> <<>>]

\* ------------------------------------------------------------------ store
\* A database state: the three tables and the two AUTOINCREMENT sequences.
EmptyDb == [models |-> {}, convs |-> <<>>, msgs |-> <<>>, seqC |-> 0, seqM |-> 0]

ConversationRow(model_id, source) ==
    [model_id |-> model_id, source_conversation_id |-> source]

MessageRow(who, body, conversation_id, t) ==
    [who |-> who, body |-> body, conversation_id |-> conversation_id,
     inserted_at |-> t]

\* A database left by earlier runs of the program (create table if not
\* exists): two conversations whose messages interleave in id order, with two
\* rows of the same instant.
OldDb ==
    [models |-> {1, 2},
     convs |-> (1 :> ConversationRow(1, Null)) @@ (2 :> ConversationRow(2, Null)),
     msgs |-> (1 :> MessageRow(Me, <<0>>, 1, 0))
           @@ (2 :> MessageRow(Llama, <<1, 2>>, 1, 0))
           @@ (3 :> MessageRow(Me, <<3>>, 2, 0))
           @@ (4 :> MessageRow(Me, <<4>>, 1, 1))
           @@ (5 :> MessageRow(Llama, <<5>>, 1, 1)),
     seqC |-> 2, seqM |-> 5]

\* insert into conversations (name[, source_conversation_id]): model_id
\* defaults to 1 and references models(id); the id is the next of the sequence.
InsertConversation(db, source) ==
    LET id == db.seqC + 1
    IN  [db EXCEPT !.convs = @ @@ (id :> ConversationRow(1, source)),
                   !.seqC = id]

\* The foreign key of conversations.model_id for the default model.
CanInsertConversation(db) == 1 \in db.models

\* insert into messages (who, body, conversation_id): inserted_at defaults to
\* the instant of the statement.
InsertMessage(db, who, body, conversation_id, t) ==
    LET id == db.seqM + 1
    IN  [db EXCEPT !.msgs = @ @@ (id :> MessageRow(who, body, conversation_id, t)),
                   !.seqM = id]

\* foreign key(conversation_id) references conversations(id)
CanInsertMessage(db, conversation_id) == conversation_id \in DOMAIN db.convs

\* order by inserted_at, id
Before(db, a, b) ==
    \/ db.msgs[a].inserted_at < db.msgs[b].inserted_at
    \/ /\ db.msgs[a].inserted_at = db.msgs[b].inserted_at
       /\ a < b

RECURSIVE SortIds(_, _)
SortIds(db, S) ==
    IF S = {} THEN <<>>
    ELSE LET m == CHOOSE x \in S : \A y \in S \ {x} : Before(db, x, y)
         IN  <<m>> \o SortIds(db, S \ {m})

\* select ... from messages where conversation_id = ? order by inserted_at, id
OrderedMessages(db, conversation_id) ==
    SortIds(db, {m \in DOMAIN db.msgs : db.msgs[m].conversation_id = conversation_id})

\* The rows that select returns (Vec<Message>): id, who and body as they are
\* in db at the select.
SelectMessages(db, conversation_id) ==
    LET ids == OrderedMessages(db, conversation_id)
    IN  [i \in 1..Len(ids) |->
            [id |-> ids[i], who |-> db.msgs[ids[i]].who, body |-> db.msgs[ids[i]].body]]

\* A String as a sequence of pieces: a body's tokens as their text.
BodyText(body) == [i \in 1..Len(body) |-> ToString(body[i])]

\* A prompt without the ": " between speaker and body.
RECURSIVE PromptWithoutSeparator(_)
PromptWithoutSeparator(messages) ==
    IF messages = <<>> THEN <<>>
    ELSE <<Head(messages).who>> \o BodyText(Head(messages).body) \o <<"\n">>
            \o PromptWithoutSeparator(Tail(messages))

\* let mut prompt = String::new(); for message in messages { push_str(who);
\* push_str(": "); push_str(body); push('\n') }
RECURSIVE Prompt(_)
Prompt(messages) ==
    IF messages = <<>> THEN <<>>
    ELSE <<Head(messages).who, ": ">> \o BodyText(Head(messages).body) \o <<"\n">>
            \o Prompt(Tail(messages))

\* The rows of a table scan, in rowid order.
RECURSIVE ScanIds(_)
ScanIds(S) ==
    IF S = {} THEN <<>>
    ELSE LET m == CHOOSE x \in S : \A y \in S : x <= y
         IN  <<m>> \o ScanIds(S \ {m})

\* A writer that stored each text in place of the body: set body = ?
AppendBodyOverwrite(body, response) == response

\* A writer that puts each text in front of the body: set body = ? || body.
AppendBodyInFront(body, response) == response \o body

\* update messages set body = body || ? where id = ?
AppendBody(body, response) == body \o response

\* A writer whose update also moves the row's timestamp: set body = body || ?,
\* inserted_at = the instant after.
UpdateBodyTouchingRow(db, id, response) ==
    IF id \in DOMAIN db.msgs
    THEN [db EXCEPT !.msgs[id].body = AppendBody(@, response),
                    !.msgs[id].inserted_at = @ + 1]
    ELSE db

\* A writer that appends to the newest reply row: where id = (select max(id)
\* from messages where who = 'LlaMA').
UpdateBodyNewestReply(db, id, response) ==
    LET replies == {m \in DOMAIN db.msgs : db.msgs[m].who = Llama}
    IN  IF replies = {} THEN db
        ELSE LET newest == CHOOSE m \in replies : \A x \in replies : x <= m
             IN  [db EXCEPT !.msgs[newest].body = AppendBody(@, response)]

UpdateBody(db, id, response) ==
    IF id \in DOMAIN db.msgs
    THEN [db EXCEPT !.msgs[id].body = AppendBody(@, response)]
    ELSE db

\* A where clause with inserted_at < ? in place of <=.
ForkFilterStrictlyEarlier(db, latest_conversation_id, latest_inserted_at, message_id) ==
    {m \in DOMAIN db.msgs :
        /\ db.msgs[m].conversation_id = latest_conversation_id
        /\ db.msgs[m].inserted_at < latest_inserted_at
        /\ m <= message_id}

\* A where clause without conversation_id = ?.
ForkFilterAnyConversation(db, latest_conversation_id, latest_inserted_at, message_id) ==
    {m \in DOMAIN db.msgs :
        /\ db.msgs[m].inserted_at <= latest_inserted_at
        /\ m <= message_id}

\* The where clause of fork's insert ... select: the rows of the cut
\* message's conversation with inserted_at <= ? and id <= ?.
ForkFilter(db, latest_conversation_id, latest_inserted_at, message_id) ==
    {m \in DOMAIN db.msgs :
        /\ db.msgs[m].conversation_id = latest_conversation_id
        /\ db.msgs[m].inserted_at <= latest_inserted_at
        /\ m <= message_id}

\* insert into messages (who, body, conversation_id) select who, body, ?: one
\* statement, so every copy has the statement's instant; the rows are read by
\* a scan of the table, so the copies take their ids in rowid order.
RECURSIVE CopyRows(_, _, _, _)
CopyRows(db, rows, new_conversation_id, t) ==
    IF rows = <<>> THEN db
    ELSE CopyRows(InsertMessage(db, db.msgs[Head(rows)].who, db.msgs[Head(rows)].body,
                                new_conversation_id, t),
                  Tail(rows), new_conversation_id, t)

\* A store without the foreign key of conversations.model_id.
CanSetModelWithoutKey(db, model_id) == TRUE

\* foreign key(model_id) references models(id), checked for a row the update
\* writes.
CanSetModel(db, model_id) == model_id \in db.models

\* update conversations set model_id = ? where id = ?
SetModel(db, conversation_id, model_id) ==
    IF conversation_id \in DOMAIN db.convs
    THEN [db EXCEPT !.convs[conversation_id].model_id = model_id]
    ELSE db

\* A delete that leaves the messages of the conversation behind.
DeleteConversationWithoutCascade(db, conversation_id) ==
    [db EXCEPT !.convs = [c \in DOMAIN @ \ {conversation_id} |-> @[c]]]

\* delete from conversations where id = ?, with foreign keys on: the rows of
\* messages that reference it go with it (on delete cascade); no key
\* references conversations from conversations.source_conversation_id.
DeleteConversation(db, conversation_id) ==
    [db EXCEPT
        !.convs = [c \in DOMAIN @ \ {conversation_id} |-> @[c]],
        !.msgs = [m \in {x \in DOMAIN @ : @[x].conversation_id # conversation_id}
                    |-> @[m]]]

\* ------------------------------------------------------------------ state
VARIABLES
    store,    \* the committed database
    txn,      \* the open write transaction: its owner and its working copy
    now,      \* the wall clock (STRFTIME(..., 'NOW'))
    mutex,    \* who holds Arc<Mutex<AppState>>
    hub,      \* every value sent on ollama_tx, oldest first
    sends,    \* messages_create requests
    clients,  \* the task send_chat_message spawns, per send
    writers,  \* the task spawn_llm_response_update_task spawns, per send
    feeds,    \* messages_create_sse_handler streams
    forks     \* conversations_fork_create requests

vars == <<store, txn, now, mutex, hub, sends, clients, writers, feeds, forks>>

Nobody == [kind |-> "none", id |-> 0]
SendOwner(s) == [kind |-> "send", id |-> s]
ForkOwner(f) == [kind |-> "fork", id |-> f]

NoTxn == [owner |-> Nobody, db |-> EmptyDb]

NoMessage == MessageRow("", <<>>, Null, 0)

IdleSend ==
    [pc |-> "idle", conversation_id |-> Null, body |-> <<>>, rx |-> 0, born |-> 0,
     message |-> Null, messages |-> <<>>, ollama_response |-> Null,
     prompt |-> <<>>,
     model |-> Null]

\* The client task: lines is the number of lines it has read, skipped the
\* number of them that were no ChatResponse; err_at is 0 until lines.next()
\* returns its first Err, and from then on one more than the number of
\* values the task had sent by then.
NoClient == [status |-> "none", lines |-> 0, skipped |-> 0, err_at |-> 0]

\* A broadcast::Receiver: next is the position of the value it reads next
\* (the number of values sent before it), born the number of values sent
\* before it was created, last the position in hub of the last value it
\* returned (0: none yet), chunk that value's text, cause why its task ended.
NoReceiver == [status |-> "none", next |-> 0, born |-> 0, last |-> 0,
               chunk |-> <<>>, cause |-> "", message_id |-> Null]

IdleFork ==
    [pc |-> "idle", conversation_id |-> Null, message_id |-> Null,
     new_conversation_id |-> Null, latest_message |-> NoMessage]

Init ==
    /\ store = OldDb
    /\ txn = NoTxn
    /\ now = 1
    /\ mutex = Nobody
    /\ hub = <<>>
    /\ sends = [s \in Sends |-> IdleSend]
    /\ clients = [s \in Sends |-> NoClient]
    /\ writers = [s \in Sends |-> NoReceiver]
    /\ feeds = [d \in Feeds |-> NoReceiver]
    /\ forks = [f \in Forks |-> IdleFork]

\* ------------------------------------------------------------ transactions
\* A handler that let its Transaction drop without commit.
CommitLost(committed, working) == committed

\* txn.commit(): the working copy becomes the committed database.
Commit(committed, working) == working

\* An early return that left the transaction's writes in place.
RollbackKeepsWrites(committed, working) == working

\* A Transaction dropped without commit (an early return by ?): rolled back.
Rollback(committed, working) == committed

\* A receiver that starts at the oldest value the channel retains.
ResubscribeFromOldest(tail) == IF tail > BufferLen THEN tail - BufferLen ELSE 0

\* A receiver made one send late: it starts after the next value.
ResubscribeAfterNext(tail) == tail + 1

\* Receiver::resubscribe(): a new receiver that starts at the channel's tail.
Resubscribe(tail) == tail

\* Receiver::recv() finds its next value overwritten: Err(Lagged).
Lagged(rx) == rx.next + BufferLen < Len(hub)

\* Receiver::recv() has a value to return.
Ready(rx) == ~Lagged(rx) /\ rx.next < Len(hub)

\* ------------------------------------------------------- messages_create
\* lock the state; take the handles; state.ollama_rx.resubscribe(); unlock
MC_Begin(s, conversation_id, body) ==
    /\ sends[s].pc = "idle"
    /\ mutex = Nobody
    /\ sends' = [sends EXCEPT ![s] = [@ EXCEPT !.pc = "begun",
                                               !.conversation_id = conversation_id,
                                               !.body = body,
                                               !.rx = Resubscribe(Len(hub)),
                                               !.born = Len(hub)]]
    /\ UNCHANGED <<store, txn, now, mutex, hub, clients, writers, feeds, forks>>

\* conn.begin(); insert into messages (Who::Me, body, conversation_id); then
\* select ... from messages where conversation_id = ? order by inserted_at, id
\* (the transaction holds the write lock: the select reads what the insert left)
MC_InsertUser(s) ==
    /\ sends[s].pc = "begun"
    /\ txn.owner = Nobody
    /\ IF CanInsertMessage(store, sends[s].conversation_id)
       THEN LET db == InsertMessage(store, Me, sends[s].body,
                                    sends[s].conversation_id, now)
            IN  /\ txn' = [owner |-> SendOwner(s), db |-> db]
                /\ sends' = [sends EXCEPT ![s] = [@ EXCEPT
                       !.pc = "user",
                       !.message = store.seqM + 1,
                       !.messages = SelectMessages(db, sends[s].conversation_id)]]
       ELSE /\ txn' = txn
            /\ sends' = [sends EXCEPT ![s] = [@ EXCEPT !.pc = "failed"]]
    /\ UNCHANGED <<store, now, mutex, hub, clients, writers, feeds, forks>>

\* insert into messages (Who::Llama, "", conversation_id); then select
\* models.id, models.name from models inner join conversations ..., fetch_one
MC_InsertPlaceholder(s) ==
    /\ sends[s].pc = "user"
    /\ LET c == sends[s].conversation_id
           db == InsertMessage(txn.db, Llama, <<>>, c, now)
       IN  IF c \in DOMAIN db.convs /\ db.convs[c].model_id \in db.models
           THEN /\ sends' = [sends EXCEPT ![s] = [@ EXCEPT
                       !.pc = "placeholder",
                       !.ollama_response = txn.db.seqM + 1,
                       !.model = db.convs[c].model_id]]
                /\ txn' = [txn EXCEPT !.db = db]
                /\ UNCHANGED store
           ELSE /\ sends' = [sends EXCEPT ![s] = [@ EXCEPT !.pc = "failed"]]
                /\ store' = Rollback(store, txn.db)
                /\ txn' = NoTxn
    /\ UNCHANGED <<now, mutex, hub, clients, writers, feeds, forks>>

\* txn.commit()
MC_Commit(s) ==
    /\ sends[s].pc = "placeholder"
    /\ store' = Commit(store, txn.db)
    /\ txn' = NoTxn
    /\ sends' = [sends EXCEPT ![s] = [@ EXCEPT !.pc = "committed"]]
    /\ UNCHANGED <<now, mutex, hub, clients, writers, feeds, forks>>

\* A statement of the transaction, or its commit, returns an error: the
\* handler returns by ? and the transaction is rolled back.
MC_Fail(s) ==
    /\ sends[s].pc \in {"begun", "user", "placeholder"}
    /\ sends' = [sends EXCEPT ![s] = [@ EXCEPT !.pc = "failed"]]
    /\ IF txn.owner = SendOwner(s)
       THEN store' = Rollback(store, txn.db) /\ txn' = NoTxn
       ELSE UNCHANGED <<store, txn>>
    /\ UNCHANGED <<now, mutex, hub, clients, writers, feeds, forks>>

\* spawn_llm_response_update_task(conn2, ollama_response.id, ollama_rx2);
\* send_chat_message(...), which spawns the client task and returns Ok(()):
\* the handler does not await between the two.
MC_Spawn(s) ==
    /\ sends[s].pc = "committed"
    /\ sends' = [sends EXCEPT ![s] = [@ EXCEPT !.pc = "ok",
                                               !.prompt = Prompt(sends[s].messages)]]
    /\ writers' = [writers EXCEPT ![s] =
                     [NoReceiver EXCEPT !.status = "recv",
                                        !.next = sends[s].rx,
                                        !.born = sends[s].born,
                                        !.message_id = sends[s].ollama_response]]
    /\ clients' = [clients EXCEPT ![s] = [NoClient EXCEPT !.status = "connecting"]]
    /\ UNCHANGED <<store, txn, now, mutex, hub, feeds, forks>>

\* A fragment that counts the rows from zero.
ReturnedFromZero(s) ==
    [message |-> sends[s].message,
     message_position |-> Len(sends[s].messages) - 1,
     ollama_response |-> sends[s].ollama_response,
     ollama_response_position |-> Len(sends[s].messages)]

\* What the fragment messages_create returns shows: let count =
\* messages.len(); the user message's row with (count) and its id in the fork
\* link, the placeholder's row with (count + 1) and its id.
Returned(s) ==
    [message |-> sends[s].message,
     message_position |-> Len(sends[s].messages),
     ollama_response |-> sends[s].ollama_response,
     ollama_response_position |-> Len(sends[s].messages) + 1]

\* ------------------------------------------- the task of send_chat_message
\* The values generation s has sent on the channel, oldest first.
EmittedBy(s) == SelectSeq(hub, LAMBDA e : e.gen = s)

SentDone(s) == \E i \in 1..Len(hub) : hub[i].gen = s /\ hub[i].kind = "Done"

\* client.post(...).send().await.unwrap()
ClientConnect(s, ok) ==
    /\ clients[s].status = "connecting"
    /\ clients' = [clients EXCEPT ![s].status = IF ok THEN "reading" ELSE "panicked"]
    /\ UNCHANGED <<store, txn, now, mutex, hub, sends, writers, feeds, forks>>

\* A client that sends the text of a line it could not parse.
LineEventsBadAsMore(s, kind, response) ==
    CASE kind = "more" -> <<More(s, response)>>
      [] kind = "done" -> <<Done(s)>>
      [] kind = "bad" -> <<More(s, response)>>
      [] OTHER -> <<>>

\* The values one line makes the task send: More or Done for a ChatResponse,
\* nothing for a line that is none (logged) and for an Err (logged).
LineEvents(s, kind, response) ==
    CASE kind = "more" -> <<More(s, response)>>
      [] kind = "done" -> <<Done(s)>>
      [] OTHER -> <<>>

\* The handles of a send between resubscribe() and the move into its writer.
HandlerReceivers == {s \in Sends : sends[s].pc \in {"begun", "user", "placeholder", "committed"}}

\* A channel whose only receivers are those of the tasks and the handlers.
ReceiverCountWithoutState ==
    Cardinality(HandlerReceivers)
      + Cardinality({s \in Sends : writers[s].status \in {"recv", "update"}})
      + Cardinality({d \in Feeds : feeds[d].status = "open"})

\* The receivers of the channel that are alive: AppState.ollama_rx, which
\* lives as long as the process, and those of the handlers, writers and feeds.
ReceiverCount ==
    1 + Cardinality(HandlerReceivers)
      + Cardinality({s \in Sends : writers[s].status \in {"recv", "update"}})
      + Cardinality({d \in Feeds : feeds[d].status = "open"})

\* let _ = ollama_tx.send(...): the channel keeps the value unless it has no
\* receiver, and the task ignores that error.
Send(channel, values, receivers) ==
    IF receivers = 0 THEN channel ELSE channel \o values

\* One turn of while let Some(line) = lines.next().await. The line is a record
\* with done = false ("more"), a record with done = true ("done"), text that
\* is no ChatResponse ("bad"), Err of a line that is not UTF-8 ("utf8"), or
\* Err of the transport ("io"), after which the reader is at its end.
ClientLine(s, kind, response) ==
    /\ clients[s].status = "reading"
    /\ clients' = [clients EXCEPT
           ![s].lines = @ + 1,
           ![s].skipped = IF kind = "bad" THEN @ + 1 ELSE @,
           ![s].status = IF kind = "io" THEN "broken" ELSE @,
           ![s].err_at = IF kind \in {"utf8", "io"} /\ @ = 0
                         THEN Len(EmittedBy(s)) + 1 ELSE @]
    /\ hub' = Send(hub, LineEvents(s, kind, response), ReceiverCount)
    /\ UNCHANGED <<store, txn, now, mutex, sends, writers, feeds, forks>>

\* lines.next() returns None: the loop and the task end.
ClientEnd(s) ==
    /\ clients[s].status \in {"reading", "broken"}
    /\ clients' = [clients EXCEPT ![s].status = "ended"]
    /\ UNCHANGED <<store, txn, now, mutex, hub, sends, writers, feeds, forks>>

\* --------------------------- the task of spawn_llm_response_update_task
\* while let Ok(chat_chunk) = ollama_rx.recv().await
WriterRecv(s) ==
    /\ writers[s].status = "recv"
    /\ \/ /\ Lagged(writers[s])
          /\ writers' = [writers EXCEPT ![s].status = "ended",
                                        ![s].cause = "lagged",
                                        ![s].next = Len(hub) - BufferLen]
       \/ /\ Ready(writers[s])
          /\ LET ev == hub[writers[s].next + 1]
             IN  writers' = [writers EXCEPT
                     ![s].next = @ + 1,
                     ![s].last = writers[s].next + 1,
                     ![s].chunk = ev.response,
                     ![s].status = IF ev.kind = "Done" THEN "ended" ELSE "update",
                     ![s].cause = IF ev.kind = "Done" THEN "done" ELSE @]
    /\ UNCHANGED <<store, txn, now, mutex, hub, sends, clients, feeds, forks>>

\* update messages set body = body || ? where id = ?, on the task's own
\* connection: it waits while another connection holds the write lock.
WriterUpdate(s) ==
    /\ writers[s].status = "update"
    /\ txn.owner = Nobody
    /\ store' = UpdateBody(store, writers[s].message_id, writers[s].chunk)
    /\ writers' = [writers EXCEPT ![s].status = "recv", ![s].chunk = <<>>]
    /\ UNCHANGED <<txn, now, mutex, hub, sends, clients, feeds, forks>>

\* ------------------------------------------- messages_create_sse_handler
\* lock the state; state.ollama_rx.resubscribe(); BroadcastStream::new
SseSubscribe(d) ==
    /\ feeds[d].status = "none"
    /\ mutex = Nobody
    /\ feeds' = [feeds EXCEPT ![d] =
                    [NoReceiver EXCEPT !.status = "open",
                                       !.next = Resubscribe(Len(hub)),
                                       !.born = Len(hub)]]
    /\ UNCHANGED <<store, txn, now, mutex, hub, sends, clients, writers, forks>>

\* One item of the stream: .map(|chat_chunk| chat_chunk.unwrap() ...), where
\* BroadcastStream yields Err(Lagged) for a receiver that fell behind.
SsePoll(d) ==
    /\ feeds[d].status = "open"
    /\ \/ /\ Lagged(feeds[d])
          /\ feeds' = [feeds EXCEPT ![d].status = "panicked",
                                    ![d].cause = "lagged",
                                    ![d].next = Len(hub) - BufferLen]
       \/ /\ Ready(feeds[d])
          /\ feeds' = [feeds EXCEPT ![d].next = @ + 1,
                                    ![d].last = feeds[d].next + 1,
                                    ![d].chunk = hub[feeds[d].next + 1].response]
    /\ UNCHANGED <<store, txn, now, mutex, hub, sends, clients, writers, forks>>

\* The browser closes the connection (hx-swap="delete" on ChatDone, or the
\* page goes away): the stream and its receiver are dropped. (last is kept
\* as the record of what the feed had delivered.)
SseClose(d) ==
    /\ feeds[d].status \in {"open", "panicked"}
    /\ feeds' = [feeds EXCEPT ![d] = [NoReceiver EXCEPT !.status = "closed",
                                                        !.last = feeds[d].last]]
    /\ UNCHANGED <<store, txn, now, mutex, hub, sends, clients, writers, forks>>

\* --------------------------------------------- conversations_fork_create
\* state.lock().await: the guard lives to the end of the handler.
Fork_Begin(f, conversation_id, message_id) ==
    /\ forks[f].pc = "idle"
    /\ mutex = Nobody
    /\ mutex' = ForkOwner(f)
    /\ forks' = [forks EXCEPT ![f] = [@ EXCEPT !.pc = "locked",
                                               !.conversation_id = conversation_id,
                                               !.message_id = message_id]]
    /\ UNCHANGED <<store, txn, now, hub, sends, clients, writers, feeds>>

\* conn.begin(); insert into conversations (name, source_conversation_id)
Fork_InsertConversation(f) ==
    /\ forks[f].pc = "locked"
    /\ txn.owner = Nobody
    /\ IF CanInsertConversation(store)
       THEN /\ txn' = [owner |-> ForkOwner(f),
                       db |-> InsertConversation(store, forks[f].conversation_id)]
            /\ forks' = [forks EXCEPT ![f] = [@ EXCEPT !.pc = "conv",
                            !.new_conversation_id = store.seqC + 1]]
            /\ UNCHANGED mutex
       ELSE /\ txn' = txn
            /\ forks' = [forks EXCEPT ![f] = [@ EXCEPT !.pc = "failed"]]
            /\ mutex' = Nobody
    /\ UNCHANGED <<store, now, hub, sends, clients, writers, feeds>>

\* select ... from messages where id = ? limit 1, fetch_one
Fork_SelectCut(f) ==
    /\ forks[f].pc = "conv"
    /\ IF forks[f].message_id \in DOMAIN txn.db.msgs
       THEN /\ forks' = [forks EXCEPT ![f] = [@ EXCEPT !.pc = "cut",
                            !.latest_message = txn.db.msgs[forks[f].message_id]]]
            /\ UNCHANGED <<store, txn, mutex>>
       ELSE /\ forks' = [forks EXCEPT ![f] = [@ EXCEPT !.pc = "failed"]]
            /\ store' = Rollback(store, txn.db)
            /\ txn' = NoTxn
            /\ mutex' = Nobody
    /\ UNCHANGED <<now, hub, sends, clients, writers, feeds>>

\* insert into messages (who, body, conversation_id) select who, body, ? ...
Fork_CopyMessages(f) ==
    /\ forks[f].pc = "cut"
    /\ txn' = [txn EXCEPT !.db =
                 CopyRows(@, ScanIds(ForkFilter(@, forks[f].latest_message.conversation_id,
                                                forks[f].latest_message.inserted_at,
                                                forks[f].message_id)),
                          forks[f].new_conversation_id, now)]
    /\ forks' = [forks EXCEPT ![f] = [@ EXCEPT !.pc = "copied"]]
    /\ UNCHANGED <<store, now, mutex, hub, sends, clients, writers, feeds>>

\* tx.commit(); the redirect; the guard is dropped
Fork_Commit(f) ==
    /\ forks[f].pc = "copied"
    /\ store' = Commit(store, txn.db)
    /\ txn' = NoTxn
    /\ mutex' = Nobody
    /\ forks' = [forks EXCEPT ![f] = [@ EXCEPT !.pc = "ok"]]
    /\ UNCHANGED <<now, hub, sends, clients, writers, feeds>>

\* acquire, begin, a statement or the commit returns an error: return by ?
Fork_Fail(f) ==
    /\ forks[f].pc \in {"locked", "conv", "cut", "copied"}
    /\ forks' = [forks EXCEPT ![f] = [@ EXCEPT !.pc = "failed"]]
    /\ IF txn.owner = ForkOwner(f)
       THEN store' = Rollback(store, txn.db) /\ txn' = NoTxn
       ELSE UNCHANGED <<store, txn>>
    /\ mutex' = Nobody
    /\ UNCHANGED <<now, hub, sends, clients, writers, feeds>>

\* --------------------------------------------------- conversations_delete
\* lock the state; one statement in autocommit, which waits for the write
\* lock; the guard is dropped at the return.
Conversations_Delete(conversation_id) ==
    /\ mutex = Nobody
    /\ txn.owner = Nobody
    /\ store' = DeleteConversation(store, conversation_id)
    /\ UNCHANGED <<txn, now, mutex, hub, sends, clients, writers, feeds, forks>>

\* --------------------------------------------------- conversations_create
\* lock the state; insert into conversations (name) in autocommit: the row
\* takes the default model_id 1, which must be a row of models.
Conversations_Create ==
    /\ mutex = Nobody
    /\ txn.owner = Nobody
    /\ store.seqC < MaxConvs
    /\ store' = IF CanInsertConversation(store)
                THEN InsertConversation(store, Null)
                ELSE store
    /\ UNCHANGED <<txn, now, mutex, hub, sends, clients, writers, feeds, forks>>

\* ----------------------------------------------------------- select_model
\* lock the state; one update in autocommit; a model_id that is no row of
\* models fails the foreign key and the handler returns the error.
Select_Model(conversation_id, model_id) ==
    /\ mutex = Nobody
    /\ txn.owner = Nobody
    /\ store' = IF conversation_id \in DOMAIN store.convs
                   /\ ~CanSetModel(store, model_id)
                THEN store
                ELSE SetModel(store, conversation_id, model_id)
    /\ UNCHANGED <<txn, now, mutex, hub, sends, clients, writers, feeds, forks>>

\* ------------------------------------------------------------------ clock
Tick ==
    /\ now < MaxTime
    /\ now' = now + 1
    /\ UNCHANGED <<store, txn, mutex, hub, sends, clients, writers, feeds, forks>>

\* --------------------------------------------------------- specifications
\* the form fields and path parameters of the requests
ConversationIds == {1, 2, 3}
Bodies == {<<9>>}
\* (conversation_id, message_id) of a fork: a cut inside conversation 1, its
\* last old row, the second row a send adds (the placeholder of a send to
\* conversation 1), a cut of another conversation, a conversation id that is
\* not in use (the next the sequence gives), a message that does not exist
ForkRequests == {<<1, 2>>, <<1, 5>>, <<1, 7>>, <<2, 4>>, <<3, 2>>, <<1, 20>>}
Texts == {<<6>>, <<7, 8>>}
Kinds == {"more", "done", "bad", "utf8", "io"}
\* the model-id of a selection: the two models of the store and an unknown one
ModelIds == {1, 2, 3}

SendStep(s) ==
    \/ \E c \in ConversationIds, b \in Bodies : MC_Begin(s, c, b)
    \/ MC_InsertUser(s)
    \/ MC_InsertPlaceholder(s)
    \/ MC_Commit(s)
    \/ MC_Fail(s)
    \/ MC_Spawn(s)

\* The generator's reply, read line by line, of at most MaxLines lines.
ClientStep(s) ==
    \/ \E ok \in BOOLEAN : ClientConnect(s, ok)
    \/ /\ clients[s].lines < MaxLines
       /\ \E k \in Kinds, t \in Texts : ClientLine(s, k, t)
    \/ ClientEnd(s)

WriterStep(s) == WriterRecv(s) \/ WriterUpdate(s)

FeedStep(d) == SseSubscribe(d) \/ SsePoll(d) \/ SseClose(d)

ForkStep(f) ==
    \/ \E r \in ForkRequests : Fork_Begin(f, r[1], r[2])
    \/ Fork_InsertConversation(f)
    \/ Fork_SelectCut(f)
    \/ Fork_CopyMessages(f)
    \/ Fork_Commit(f)
    \/ Fork_Fail(f)

\* The program: every request and every task.
Next ==
    \/ \E s \in Sends : SendStep(s) \/ ClientStep(s) \/ WriterStep(s)
    \/ \E d \in Feeds : FeedStep(d)
    \/ \E f \in Forks : ForkStep(f)
    \/ \E c \in ConversationIds : Conversations_Delete(c)
    \/ Conversations_Create
    \/ \E c \in ConversationIds, m \in ModelIds : Select_Model(c, m)
    \/ Tick

Spec == Init /\ [][Next]_vars

\* Forks and deletes, on the database earlier runs left.
NextFork ==
    \/ \E f \in Forks : ForkStep(f)
    \/ \E c \in ConversationIds : Conversations_Delete(c)
    \/ Tick

SpecFork == Init /\ [][NextFork]_vars

\* One send (the design's single generation in flight) and one feed.
NextSend ==
    \/ SendStep(1) \/ ClientStep(1) \/ WriterStep(1)
    \/ FeedStep(1)
    \/ Tick

SpecSend == Init /\ [][NextSend]_vars

\* A reply longer than the channel's buffer: line k carries the text <<k>>,
\* the done record is the last line of the reply.
LagClientStep(s) ==
    \/ \E ok \in BOOLEAN : ClientConnect(s, ok)
    \/ /\ clients[s].lines < LagLines
       /\ ~SentDone(s)
       /\ ClientLine(s, "more", <<clients[s].lines + 1>>)
    \/ /\ ~SentDone(s)
       /\ ClientLine(s, "done", <<>>)
    \/ ClientEnd(s)

\* One send whose reply outruns the channel, its writer and one feed.
NextLag ==
    \/ SendStep(1) \/ LagClientStep(1) \/ WriterStep(1)
    \/ FeedStep(1)

SpecLag == Init /\ [][NextLag]_vars

\* One line of the long reply is no record.
SkipLine(s) ==
    /\ clients[s].lines < LagLines
    /\ clients[s].skipped = 0
    /\ ~SentDone(s)
    /\ ClientLine(s, "bad", <<clients[s].lines + 1>>)

\* One send whose long reply holds a line that does not parse, and its writer.
NextSkip ==
    \/ SendStep(1) \/ LagClientStep(1) \/ SkipLine(1) \/ WriterStep(1)

SpecSkip == Init /\ [][NextSkip]_vars

\* One send, its generation and its writer, with one fork and the deletes
\* beside them.
NextMid ==
    \/ SendStep(1) \/ ClientStep(1) \/ WriterStep(1)
    \/ ForkStep(1)
    \/ \E c \in ConversationIds : Conversations_Delete(c)

SpecMid == Init /\ [][NextMid]_vars

\* The conversations and their models: create, fork, select_model, delete.
NextModels ==
    \/ Conversations_Create
    \/ \E c \in ConversationIds, m \in ModelIds : Select_Model(c, m)
    \/ ForkStep(1)
    \/ \E c \in ConversationIds : Conversations_Delete(c)

SpecModels == Init /\ [][NextModels]_vars

\* A reply of records only, each text the number of its send; it may end
\* with or without a done record.
PlainClientStep(s) ==
    \/ ClientConnect(s, TRUE)
    \/ /\ clients[s].lines < MaxPlainLines
       /\ ~SentDone(s)
       /\ ClientLine(s, "more", <<s>>)
    \/ /\ ~SentDone(s)
       /\ ClientLine(s, "done", <<>>)
    \/ ClientEnd(s)

\* Two sends, each with its generation and its writer.
NextTwo ==
    \/ SendStep(1) \/ PlainClientStep(1) \/ WriterStep(1)
    \/ SendStep(2) \/ PlainClientStep(2) \/ WriterStep(2)

SpecTwo == Init /\ [][NextTwo]_vars

\* The runtime schedules every task that can run, the store answers, and the
\* generator's reply goes on or ends.
FairLag ==
    /\ SpecLag
    /\ WF_vars(MC_InsertUser(1) \/ MC_InsertPlaceholder(1) \/ MC_Commit(1) \/ MC_Spawn(1))
    /\ WF_vars(LagClientStep(1))
    /\ WF_vars(WriterStep(1))

\* One send and one fork while the clock goes on: the statements that
\* insert rows of messages.
NextClock ==
    \/ SendStep(1)
    \/ ForkStep(1)
    \/ Tick

SpecClock == Init /\ [][NextClock]_vars

\* The sends whose writer task is alive: each holds the pool connection
\* (conn2 of messages_create) that was moved into it, until the task ends.
WriterConnections == {s \in Sends : writers[s].status \in {"recv", "update"}}

\* ================================================================= claims
RECURSIVE ConcatText(_)
ConcatText(evs) ==
    IF evs = <<>> THEN <<>> ELSE Head(evs).response \o ConcatText(Tail(evs))

\* Generation s has ended and sent More(t1), ..., More(tN), Done, nothing else.
MoreThenDone(s) ==
    LET ev == EmittedBy(s)
    IN  /\ clients[s].status = "ended"
        /\ Len(ev) >= 1
        /\ ev[Len(ev)].kind = "Done"
        /\ \A i \in 1..(Len(ev) - 1) : ev[i].kind = "More"

\* No other generation has sent anything on the channel.
SingleGeneration(s) == \A i \in 1..Len(hub) : hub[i].gen = s

PlaceholderVisible(s) == sends[s].ollama_response \in DOMAIN store.msgs

PlaceholderBody(s) == store.msgs[sends[s].ollama_response].body

Transcript(db, ids) ==
    [i \in 1..Len(ids) |-> <<db.msgs[ids[i]].who, db.msgs[ids[i]].body>>]

\* The ordered rows ids up to and including row m.
PrefixUpTo(ids, m) == SubSeq(ids, 1, CHOOSE k \in 1..Len(ids) : ids[k] = m)

\* The cut message of fork f is a row of the conversation the request names.
CutInSource(f) ==
    /\ forks[f].message_id \in DOMAIN store.msgs
    /\ store.msgs[forks[f].message_id].conversation_id = forks[f].conversation_id

C3_MismatchIsError ==
    \A f \in Forks :
        forks[f].pc = "ok" =>
            forks[f].latest_message.conversation_id = forks[f].conversation_id

\* C4: every step of a fork other than its successful commit, and so every
\* step by which it fails, leaves the committed database as it was: no
\* conversation row and no copy of a message becomes visible.
C4_ForkAllOrNothing ==
    [][\A f \in Forks :
          (forks'[f] # forks[f] /\ forks'[f].pc # "ok") => store' = store]_vars

\* C4 witness: a fork that failed after it had inserted its conversation in
\* the transaction, its cut message being a row that does not exist.
C4_Witness ==
    \E f \in Forks :
        /\ forks[f].pc = "failed"
        /\ forks[f].new_conversation_id # Null
        /\ forks[f].message_id \notin DOMAIN store.msgs
        /\ forks[f].new_conversation_id \notin DOMAIN store.convs

\* The transaction of send s has committed.
Committed(s) == sends[s].pc \in {"committed", "ok"}

\* C5: whenever the placeholder row of a send is in the committed database,
\* so is the user message of that send, in the same conversation and before
\* it in (inserted_at, id) order; and a writer task exists only for a send
\* whose transaction has committed, for the placeholder id that transaction
\* inserted and the committed database has allocated.
C5_UserThenPlaceholderThenWriter ==
    \A s \in Sends :
        /\ ( /\ sends[s].pc \in {"user", "placeholder", "committed", "ok"}
             /\ sends[s].ollama_response \in DOMAIN store.msgs )
           => /\ sends[s].message \in DOMAIN store.msgs
              /\ store.msgs[sends[s].message].conversation_id
                    = store.msgs[sends[s].ollama_response].conversation_id
              /\ Before(store, sends[s].message, sends[s].ollama_response)
        /\ writers[s].status # "none"
           => /\ Committed(s)
              /\ writers[s].message_id = sends[s].ollama_response
              /\ sends[s].ollama_response <= store.seqM

\* C5 witness: a committed send whose user message and placeholder have the
\* same instant, the writer having appended to the placeholder.
C5_Witness ==
    \E s \in Sends :
        /\ Committed(s)
        /\ PlaceholderVisible(s)
        /\ PlaceholderBody(s) # <<>>
        /\ store.msgs[sends[s].message].inserted_at
              = store.msgs[sends[s].ollama_response].inserted_at

\* C6 (as claimed): a generation sends at most one Done, and nothing after it.
C6_NothingAfterDone ==
    \A s \in Sends :
        LET ev == EmittedBy(s)
        IN  \A i \in 1..Len(ev) : ev[i].kind = "Done" => i = Len(ev)

\* C8: a receiver made by resubscribe(), the writer's or a feed's, returns no
\* value that was sent before it was made.
C8_NoReplay ==
    /\ \A s \in Sends : writers[s].last # 0 => writers[s].last > writers[s].born
    /\ \A d \in Feeds : feeds[d].last # 0 => feeds[d].last > feeds[d].born

\* C8 witness: a feed made after the generation's first value was sent (that
\* value still retained by the channel) has returned the second.
C8_Witness ==
    \E d \in Feeds :
        /\ feeds[d].born = 1
        /\ feeds[d].last = 2
        /\ Len(hub) <= BufferLen

\* C7 (as claimed): the writer task of every send eventually terminates,
\* also when its generation ends without a Done.
C7_WriterTerminates ==
    \A s \in Sends :
        (writers[s].status \in {"recv", "update"}) ~> (writers[s].status = "ended")

\* C9 (as claimed): lag does not end the writer; it ends only on Done.
C9_WriterEndsOnlyOnDone ==
    \A s \in Sends : writers[s].status = "ended" => writers[s].cause = "done"

\* C10 (as claimed): a feed that lags reaches no panic.
C10_FeedSurvivesLag ==
    \A d \in Feeds : feeds[d].status # "panicked"

\* C11 (as claimed): a send whose call to the generator could not be started
\* (the POST failed) has not completed with a success response.
C11_UnreachableIsError ==
    \A s \in Sends : clients[s].status = "panicked" => sends[s].pc # "ok"

\* C12 (as claimed): once lines.next() has returned an Err the task sends
\* nothing more: no Done and no More follows the error.
C12_NothingAfterReadError ==
    \A s \in Sends :
        clients[s].err_at # 0 => Len(EmittedBy(s)) = clients[s].err_at - 1

\* The values of ev before its first Done.
RECURSIVE UpToDone(_)
UpToDone(ev) ==
    IF ev = <<>> \/ Head(ev).kind = "Done" THEN <<>>
    ELSE <<Head(ev)>> \o UpToDone(Tail(ev))

\* Of the lines read so far (none of them an Err), each that parsed has sent
\* one value and each that did not has sent none; line k carrying the text k,
\* the More values are in line order.
EventsOfParsedLines(s) ==
    LET ev == EmittedBy(s)
    IN  clients[s].err_at = 0 =>
            /\ Len(ev) = clients[s].lines - clients[s].skipped
            /\ \A i, j \in 1..Len(ev) :
                   (i < j /\ ev[i].kind = "More" /\ ev[j].kind = "More")
                       => ev[i].response[1] < ev[j].response[1]

RowKept(m) == m \in DOMAIN store'.msgs /\ store'.msgs[m] = store.msgs[m]

\* C14: a fork beside a generation in flight leaves the stream alone. Every
\* step of a fork leaves every existing message and conversation row as it
\* was; the step that commits a fork at a cut of the named conversation gives
\* the copies the bodies the rows have at that moment (a placeholder's
\* partial body included); every step of a writer changes no row but its own
\* placeholder, to which it appends its text; and a row that is no writer's
\* placeholder, so every copy, is changed by no step.
C14_ForkLeavesStreamAlone ==
    [][ /\ \A f \in Forks :
              forks'[f] # forks[f] =>
                  /\ \A m \in DOMAIN store.msgs : RowKept(m)
                  /\ \A c \in DOMAIN store.convs :
                         c \in DOMAIN store'.convs /\ store'.convs[c] = store.convs[c]
                  /\ writers' = writers
                  /\ hub' = hub
                  /\ (forks'[f].pc = "ok" /\ CutInSource(f)) =>
                         Transcript(store', OrderedMessages(store', forks[f].new_conversation_id))
                           = Transcript(store, PrefixUpTo(OrderedMessages(store, forks[f].conversation_id),
                                                         forks[f].message_id))
        /\ \A s \in Sends :
              (writers'[s] # writers[s] /\ writers[s].status # "none") =>
                  /\ DOMAIN store'.msgs = DOMAIN store.msgs
                  /\ \A m \in DOMAIN store.msgs \ {writers[s].message_id} : RowKept(m)
                  /\ writers'[s].message_id = writers[s].message_id
                  /\ (writers[s].status = "update"
                        /\ writers[s].message_id \in DOMAIN store.msgs) =>
                         store'.msgs[writers[s].message_id] =
                            [store.msgs[writers[s].message_id] EXCEPT
                                !.body = @ \o writers[s].chunk]
        /\ \A m \in DOMAIN store.msgs \cap DOMAIN store'.msgs :
              (\A s \in Sends : writers[s].status = "none" \/ writers[s].message_id # m)
                  => store'.msgs[m] = store.msgs[m]
      ]_vars

\* C14 witness: a fork committed while the writer was between two texts: the
\* copy of the placeholder holds the first text, the placeholder both.
C14_Witness ==
    \E f \in Forks, s \in Sends :
        /\ forks[f].pc = "ok"
        /\ writers[s].status # "none"
        /\ PlaceholderVisible(s)
        /\ \E m \in DOMAIN store.msgs :
              /\ store.msgs[m].conversation_id = forks[f].new_conversation_id
              /\ store.msgs[m].who = Llama
              /\ store.msgs[m].body = <<6>>
              /\ PlaceholderBody(s) = <<6, 7, 8>>

\* Every line that parsed has been sent as one value.
SentEveryParsedLine(s) ==
    clients[s].err_at = 0 =>
        Len(EmittedBy(s)) = clients[s].lines - clients[s].skipped

C16_DeleteCascadesOnly ==
    [][ /\ \A c \in DOMAIN store.convs \ DOMAIN store'.convs :
              /\ \A m \in DOMAIN store'.msgs : store'.msgs[m].conversation_id # c
              /\ \A c2 \in DOMAIN store.convs \ {c} :
                     c2 \in DOMAIN store'.convs /\ store'.convs[c2] = store.convs[c2]
              /\ \A m \in DOMAIN store.msgs :
                     store.msgs[m].conversation_id # c => RowKept(m)
        /\ \A m \in DOMAIN store'.msgs :
              store'.msgs[m].conversation_id \in DOMAIN store'.convs
      ]_vars

\* C16 witness: conversation 1 was forked at its second row and then
\* deleted: the fork, which names 1 as its source, has its two rows, and
\* conversation 2 has its row.
C16_Witness ==
    /\ 1 \notin DOMAIN store.convs
    /\ \A m \in DOMAIN store.msgs : store.msgs[m].conversation_id # 1
    /\ \E c \in DOMAIN store.convs :
          /\ store.convs[c].source_conversation_id = 1
          /\ Transcript(store, OrderedMessages(store, c)) = <<<<Me, <<0>>>>, <<Llama, <<1, 2>>>>>>
    /\ 3 \in DOMAIN store.msgs
    /\ store.msgs[3] = OldDb.msgs[3]

\* C17 (as claimed): every conversation with a source reference refers to a
\* conversation id other than its own that was given out before its own.
C17_SourceIsOlder ==
    \A c \in DOMAIN store.convs :
        store.convs[c].source_conversation_id # Null
            => store.convs[c].source_conversation_id < c

\* C18: the writes of a send are all or nothing. Every step of a send other
\* than its commit leaves the committed database as it was; and a send that
\* has failed stays failed (the caller got the error), neither its user
\* message nor its placeholder is in the committed database, and it has no
\* writer task and no client task.
C18_SendAllOrNothing ==
    [][\A s \in Sends :
          /\ (sends'[s] # sends[s] /\ sends'[s].pc # "committed") => store' = store
          /\ sends[s].pc = "failed" => sends'[s].pc = "failed"
          /\ sends'[s].pc = "failed" =>
                /\ sends'[s].message \notin DOMAIN store'.msgs
                /\ sends'[s].ollama_response \notin DOMAIN store'.msgs
                /\ writers'[s].status = "none"
                /\ clients'[s].status = "none"]_vars

\* C18 witness: a send that failed after its transaction had inserted the
\* user message and the placeholder: the committed database has neither.
C18_Witness ==
    \E s \in Sends :
        /\ sends[s].pc = "failed"
        /\ sends[s].message # Null
        /\ sends[s].ollama_response # Null
        /\ sends[s].message \notin DOMAIN store.msgs
        /\ sends[s].ollama_response \notin DOMAIN store.msgs
        /\ txn.owner = Nobody
        /\ writers[s].status = "none"

IsPrefix(a, b) == Len(a) <= Len(b) /\ SubSeq(b, 1, Len(a)) = a

\* C19: bodies only grow by appending: by every step of every operation, the
\* body of each message that stays in the committed database has its
\* previous value as a prefix.
C19_BodiesOnlyGrow ==
    [][\A m \in DOMAIN store.msgs \cap DOMAIN store'.msgs :
          IsPrefix(store.msgs[m].body, store'.msgs[m].body)]_vars

\* C19 witness: a placeholder to which the writer has appended twice, with a
\* fork committed beside it.
C19_Witness ==
    \E s \in Sends, f \in Forks :
        /\ forks[f].pc = "ok"
        /\ PlaceholderVisible(s)
        /\ Len(EmittedBy(s)) = 2
        /\ PlaceholderBody(s) = <<6, 7, 8>>
        /\ writers[s].status = "recv"

\* Of two messages of db exactly one is before the other.
StrictTotalOrder(db) ==
    \A a, b \in DOMAIN db.msgs : a # b => (Before(db, a, b) # Before(db, b, a))

\* C20: no step changes the inserted_at or the conversation of a message
\* that stays (its id is its key); before and after every change of the
\* database, of two messages exactly one is before the other in
\* (inserted_at, id); and a step that neither inserts nor deletes a message
\* leaves the ordered read of every conversation as it was.
C20_OrderIsStable ==
    [][store' # store =>
          /\ \A m \in DOMAIN store.msgs \cap DOMAIN store'.msgs :
                /\ store'.msgs[m].inserted_at = store.msgs[m].inserted_at
                /\ store'.msgs[m].conversation_id = store.msgs[m].conversation_id
          /\ StrictTotalOrder(store)
          /\ StrictTotalOrder(store')
          /\ DOMAIN store'.msgs = DOMAIN store.msgs =>
                \A c \in DOMAIN store.convs :
                    OrderedMessages(store', c) = OrderedMessages(store, c)
      ]_vars

\* C20 witness: a conversation with a user message and a placeholder of the
\* same instant, read in id order after the writer has changed the
\* placeholder's body.
C20_Witness ==
    \E s \in Sends :
        /\ PlaceholderVisible(s)
        /\ PlaceholderBody(s) # <<>>
        /\ store.msgs[sends[s].message].inserted_at
              = store.msgs[sends[s].ollama_response].inserted_at
        /\ LET ids == OrderedMessages(store, sends[s].conversation_id)
           IN  /\ Len(ids) >= 2
               /\ ids[Len(ids) - 1] = sends[s].message
               /\ ids[Len(ids)] = sends[s].ollama_response

\* Speaker tag, ": ", body and a newline for each of the rows ids of db.
RECURSIVE Rendered(_, _)
Rendered(db, ids) ==
    IF ids = <<>> THEN <<>>
    ELSE <<db.msgs[Head(ids)].who, ": ">> \o BodyText(db.msgs[Head(ids)].body)
            \o <<"\n">> \o Rendered(db, Tail(ids))

\* C21: the prompt of a send is the rendering of the messages of its
\* conversation in (inserted_at, id) order, its own user message among them
\* (the last of them) and its own placeholder left out, and nothing else.
C21_PromptIsTranscript ==
    \A s \in Sends :
        sends[s].pc = "ok" =>
            LET ids == SelectSeq(OrderedMessages(store, sends[s].conversation_id),
                                 LAMBDA m : m # sends[s].ollama_response)
            IN  /\ sends[s].prompt = Rendered(store, ids)
                /\ ids # <<>>
                /\ ids[Len(ids)] = sends[s].message

\* C21 witness: a send to conversation 1, whose four old rows and the new
\* user message make the prompt, while the writer has filled the placeholder.
C21_Witness ==
    \E s \in Sends :
        /\ sends[s].pc = "ok"
        /\ sends[s].conversation_id = 1
        /\ PlaceholderBody(s) # <<>>
        /\ sends[s].prompt =
              <<"Me", ": ", "0", "\n", "LlaMA", ": ", "1", "2", "\n",
                "Me", ": ", "4", "\n", "LlaMA", ": ", "5", "\n",
                "Me", ": ", "9", "\n">>

\* Fork f is between two of its awaits on the store (acquire, begin, a
\* statement, the commit).
ForkSuspended(f) == forks[f].pc \in {"locked", "conv", "cut", "copied"}

\* C22 (as claimed): while a handler is suspended on a store access, the
\* other handlers are not all blocked: a send can take a step, or a feed can
\* be opened or polled, or a delete can run.
C22_SuspendedDoesNotBlock ==
    \A f \in Forks :
        ForkSuspended(f) =>
            \/ \E s \in Sends : ENABLED SendStep(s)
            \/ \E d \in Feeds : ENABLED FeedStep(d)
            \/ \E c \in ConversationIds : ENABLED Conversations_Delete(c)

\* C23: after every step each conversation references a row of models; a
\* conversation that appears (created or forked) references model 1, the
\* first row of models; and a step that changes the model of a conversation
\* changes it to a row of models and changes nothing else in the database.
C23_OneExistingModel ==
    [][ /\ \A c \in DOMAIN store'.convs : store'.convs[c].model_id \in store'.models
        /\ \A c \in DOMAIN store'.convs \ DOMAIN store.convs :
              /\ store'.convs[c].model_id = 1
              /\ \A m \in store'.models : 1 <= m
        /\ \A c \in DOMAIN store'.convs \cap DOMAIN store.convs :
              store'.convs[c].model_id # store.convs[c].model_id =>
                  /\ store'.convs[c].model_id \in store.models
                  /\ store' = [store EXCEPT !.convs[c].model_id = store'.convs[c].model_id]
      ]_vars

\* C23 witness: conversation 1 was given model 2; a conversation forked from
\* it and a conversation created anew both reference model 1.
C23_Witness ==
    /\ 1 \in DOMAIN store.convs
    /\ store.convs[1].model_id = 2
    /\ \E c \in DOMAIN store.convs :
          store.convs[c].source_conversation_id = 1 /\ store.convs[c].model_id = 1
    /\ \E c \in DOMAIN store.convs \ {1, 2} :
          store.convs[c].source_conversation_id = Null /\ store.convs[c].model_id = 1

C25_NoCrossTalk ==
    \A s \in Sends :
        writers[s].last # 0 => hub[writers[s].last].gen = s

\* C26: every value a generation has broadcast was sent when the receiver of
\* its send's writer already existed, and after that receiver's starting
\* point: the writer can still be handed each of them.
C26_SubscribedBeforeFirstEvent ==
    \A i \in 1..Len(hub) :
        LET s == hub[i].gen
        IN  /\ sends[s].pc = "ok"
            /\ sends[s].rx < i
            /\ writers[s].status # "none"
            /\ writers[s].born < i

\* C26 witness: the second send subscribed while values of the first were in
\* the channel, its generation has broadcast, and its writer has received
\* one of its own values.
C26_Witness ==
    /\ sends[2].pc = "ok"
    /\ sends[2].rx >= 1
    /\ writers[2].last # 0
    /\ hub[writers[2].last].gen = 2

\* C27 (as claimed): every pool connection taken for a writer is eventually
\* returned to the pool: whenever writers hold connections, a later state has
\* none held.
C27_ConnectionsReturned ==
    (WriterConnections # {}) ~> (WriterConnections = {})

\* The conversation ids that were given out and deleted since.
Gone(db) == (1..db.seqC) \ DOMAIN db.convs

\* C28: a deleted conversation stays deleted and no message of it exists in
\* any later state; an append by a writer whose placeholder went with its
\* conversation changes nothing and the writer goes on receiving; a send to
\* a deleted conversation fails at its first insert and persists nothing.
C28_DeletedStaysEmpty ==
    [][ /\ Gone(store) \subseteq Gone(store')
        /\ \A m \in DOMAIN store'.msgs :
              store'.msgs[m].conversation_id \notin Gone(store')
        /\ \A s \in Sends :
              /\ ( /\ writers[s].status = "update"
                   /\ writers'[s].status # "update"
                   /\ writers[s].message_id \notin DOMAIN store.msgs )
                 => (store' = store /\ writers'[s].status = "recv")
              /\ ( /\ sends[s].pc = "begun"
                   /\ sends'[s].pc # "begun"
                   /\ sends[s].conversation_id \in Gone(store) )
                 => (sends'[s].pc = "failed" /\ store' = store /\ txn' = txn)
      ]_vars

\* C28 witness: the conversation of a send was deleted while its generation
\* was in flight: the placeholder is gone and the writer holds text to append.
C28_Witness ==
    \E s \in Sends :
        /\ sends[s].pc = "ok"
        /\ sends[s].conversation_id \in Gone(store)
        /\ writers[s].status = "update"
        /\ writers[s].chunk # <<>>
        /\ writers[s].message_id \notin DOMAIN store.msgs

\* The rows of M's conversation that rank at or before M in the order
\* (inserted_at, id).
RankedAtOrBefore(db, M) ==
    {m \in DOMAIN db.msgs :
        /\ db.msgs[m].conversation_id = db.msgs[M].conversation_id
        /\ (m = M \/ Before(db, m, M))}

\* The committed database and, while a transaction is open, its working copy.
Databases == {store} \cup (IF txn.owner = Nobody THEN {} ELSE {txn.db})

====
